---------------------------- MODULE Spec2Model ----------------------------
(***************************************************************************)
(* A model of the grokipedia-api request pipeline: the TTL file cache      *)
(* (grokipedia_api/cache.py), the error taxonomy (exceptions.py), the      *)
(* tenacity retry policy and the synchronous and asynchronous transport    *)
(* clients (client.py, async_client.py).                                   *)
(*                                                                         *)
(* Strings whose characters matter (cache keys, file names) are sequences  *)
(* of one-character strings; the non-ASCII letter e-acute is written       *)
(* "U+00E9".  Time is counted in whole seconds.                            *)
(***************************************************************************)
EXTENDS Integers, Sequences, FiniteSets, TLC

VARIABLES
    now,        \* time.time()
    files,      \* the cache directory: path -> content of the file at that path
    written,    \* history of a store used directly: path -> the last set() on it
    lastOp,     \* history of a store used directly: the method called last
    client,     \* the constructed client: variant and use_cache
    call,       \* the client operation in progress or just finished
    prev,       \* summary of the operation finished before the current one
    session,    \* self.session: 0 for None, else the number of a session
    sessions,   \* every session the client has created, in order of creation
    scope,      \* the with-blocks entered on the client, and the lifecycle call made last
    fan,        \* a running search_many / get_many_pages
    threads,    \* threads (or processes) inside FileCache methods on one directory
    scraper     \* a running GrokipediaScraper.discover_slugs_from_search

\* the session-lifecycle part of the state
life == <<session, sessions, scope>>

vars == <<now, files, written, lastOp, client, call, prev, session, sessions, scope, fan,
          threads, scraper>>

---------------------------------------------------------------------------
(* Bounds of the model *)

\* the clock stops here
MaxTime == 4
\* the ttl the store is constructed with (FileCache(ttl=...), cache_ttl=...)
CacheTtl == 1
\* the sessions one asynchronous client creates
MaxSessions == 2
\* the with-blocks nested on one client
MaxScopes == 1
\* the times close() is called on one session
MaxReleases == 2
\* the longest list of queries / slugs passed to a fan-out helper
MaxItems == 2
\* the longest query / slug whose cache path is derived
MaxQueryLen == 2
\* the largest attempt number whose backoff wait is computed
MaxWaitAttempts == 8
\* the most threads inside FileCache methods at once
MaxThreads == 2
\* the most results the service holds for a scraped query
MaxResults == 4

---------------------------------------------------------------------------
(* Python values and their JSON serialisation (json.dump / json.load) *)

PyVal(t, found, data) == [t |-> t, found |-> found, data |-> data]

\* None: what get() returns for "absent", and the value of a JSON null
PyNone == PyVal("NoneType", "none", 0)
\* a dict; found is the value of its "found" item ("none": no such item)
PyDict(found, data) == PyVal("dict", found, data)
PyList(data) == PyVal("list", "none", data)
PyTuple(data) == PyVal("tuple", "none", data)
\* a set: json.dump raises TypeError on it
PySet(data) == PyVal("set", "none", data)

\* the values of the JSON data model, as json.load produces them
JsonModelTypes == {"dict", "list", "NoneType"}
\* the types json.dump can serialise
SerializableTypes == {"dict", "list", "tuple", "NoneType"}

\* json.dump: the JSON text of a value; a tuple is written as an array
JsonDump(v) ==
    [v EXCEPT !.t = CASE v.t = "dict" -> "object"
                      [] v.t \in {"list", "tuple"} -> "array"
                      [] v.t = "NoneType" -> "null"
                      [] OTHER -> "unserializable"]

\* json.load: the value of a JSON text; an array is read as a list
JsonLoad(d) ==
    [d EXCEPT !.t = CASE d.t = "object" -> "dict"
                      [] d.t = "array" -> "list"
                      [] d.t = "null" -> "NoneType"
                      [] OTHER -> "undefined"]

---------------------------------------------------------------------------
(* Sessions: requests.Session (client.py) and aiohttp.ClientSession
   (async_client.py) *)

\* self.session = None
NoSession == 0
\* a session just constructed; releases counts how often its connections were
\* released
NewSession == [closed |-> FALSE, releases |-> 0]

\* __init__: GrokipediaClient constructs its session, AsyncGrokipediaClient sets
\* self.session = None
InitSessions(variant) == IF variant = "sync" THEN <<NewSession>> ELSE <<>>
InitSession(variant) == IF variant = "sync" THEN 1 ELSE NoSession

\* requests.Session.close() closes the adapters each time it is called;
\* aiohttp.ClientSession.close() releases the connector if not self.closed
SessionClose(variant, ss, s) ==
    IF variant = "async" /\ ss[s].closed THEN ss
    ELSE [ss EXCEPT ![s] = [closed |-> TRUE, releases |-> @.releases + 1]]

\* close, __exit__, __aexit__: self.session.close(), in the asynchronous client
\* under "if self.session:" (a closed session object is still true)
ClientClose(variant, ss, s) ==
    IF variant = "async" /\ s = NoSession THEN ss ELSE SessionClose(variant, ss, s)

\* _ensure_session: if not self.session: self.session = aiohttp.ClientSession(..)
NeedsSession(variant, s) == variant = "async" /\ s = NoSession
EnsuredSessions(variant, ss, s) ==
    IF NeedsSession(variant, s) THEN Append(ss, NewSession) ELSE ss
EnsuredSession(variant, ss, s) ==
    IF NeedsSession(variant, s) THEN Len(ss) + 1 ELSE s

\* aiohttp: ClientSession._request raises RuntimeError("Session is closed") on a
\* closed session; a requests.Session keeps working after close()
SessionRefuses(variant, ss, s) == variant = "async" /\ ss[s].closed

\* no with-block entered, no method of the client called yet; last is the
\* method called last: "call" (an operation), "enter", "exit" or "close"
NoScope == [depth |-> 0, last |-> "none", exc |-> "none", propagated |-> "none"]

\* no fan-out helper running
NoFan == [pc |-> "idle"]

---------------------------------------------------------------------------
(* FileCache: grokipedia_api/cache.py *)

\* characters for which str.isalnum() is true: the ASCII letters and digits (those
\* the model uses), and also non-ASCII letters and digits, such as e-acute and
\* ARABIC-INDIC DIGIT THREE
DigitChars == <<"0", "1", "2", "3", "4", "5", "6", "7", "8", "9">>
AsciiAlnumChars == {"a", "b", "c", "d", "e", "g", "h", "i", "k", "l", "p", "q", "r",
                    "s", "t", "u", "F", "T"}
                   \cup {DigitChars[i] : i \in 1..10}
NonAsciiAlnumChars == {"U+00E9", "U+0663"}
AlnumChars == AsciiAlnumChars \cup NonAsciiAlnumChars

\* mutant of SafeChar: a space becomes '-', anything else unsafe '_'
SafeCharSpaceApart(c) ==
    IF c \in AlnumChars \/ c \in {"_", "-"} THEN c ELSE IF c = " " THEN "-" ELSE "_"

\* safe_key: c if c.isalnum() or c in ('_', '-') else '_'
SafeChar(c) == IF c \in AlnumChars \/ c \in {"_", "-"} THEN c ELSE "_"

\* _get_cache_path: cache_dir / f"{safe_key}.json"
GetCachePath(key) == [i \in 1..Len(key) |-> SafeChar(key[i])] \o <<".json">>

\* content of a cache file: a complete {timestamp, value} document ...
Entry(ts, doc) == [form |-> "entry", timestamp |-> ts, value |-> doc]
\* ... or what set leaves when json.dump raises midway: the file was truncated
\* by open(.., 'w') and holds the text written before the TypeError
Partial(ts) == [form |-> "partial", timestamp |-> ts, value |-> JsonDump(PyNone)]
\* ... or what another program may have left at the path: a valid JSON document
\* that is not an object, an object without 'timestamp', one without 'value',
\* one whose 'timestamp' is a string
\* ("not_object", "no_timestamp", "no_value", "text_timestamp")
Malformed(form, ts, doc) == [form |-> form, timestamp |-> ts, value |-> doc]

\* ... or what a file holds while writers are at work on it: nothing, right
\* after open(.., 'w'); one document followed by the end of a longer one (tail),
\* after a writer that opened the file earlier wrote a shorter document over it
EmptyFile == [form |-> "empty", timestamp |-> 0, value |-> JsonDump(PyNone)]
Mixed(tail) == [form |-> "mixed", timestamp |-> 0, value |-> tail]

\* json.load raises JSONDecodeError on these
UnparsableForms == {"partial", "empty", "mixed"}
\* data['timestamp'] raises TypeError on a list, a number, a string, None, and
\* time.time() - data['timestamp'] raises TypeError on a string timestamp
TypeErrorForms == {"not_object", "text_timestamp"}

Exists(fs, path) == path \in DOMAIN fs

Unlink(fs, path) == [p \in DOMAIN fs \ {path} |-> fs[p]]

WriteFile(fs, path, content) ==
    [p \in DOMAIN fs \cup {path} |-> IF p = path THEN content ELSE fs[p]]

\* mutant of IsExpired: an entry counts as expired from age ttl on
IsExpiredAtTtl(ts, t) == t - ts >= CacheTtl

\* the expiry test of get: time.time() - data['timestamp'] > self.ttl
IsExpired(ts, t) == t - ts > CacheTtl

\* get, get_info: except (json.JSONDecodeError, KeyError, IOError)
CaughtByGet == {"json.JSONDecodeError", "KeyError", "IOError"}

\* get: the exception raised inside the try block ("none" when it completes)
CacheGetTry(fs, path, t) ==
    IF fs[path].form \in UnparsableForms THEN "json.JSONDecodeError"
    ELSE IF fs[path].form = "no_timestamp" THEN "KeyError"
    ELSE IF fs[path].form \in TypeErrorForms THEN "TypeError"
    ELSE IF IsExpired(fs[path].timestamp, t) THEN "none"
    ELSE IF fs[path].form = "no_value" THEN "KeyError"
    ELSE "none"

\* get: the exception that leaves the method ("none" when it returns)
CacheGetRaises(fs, key, t) ==
    LET path == GetCachePath(key) IN
    IF ~Exists(fs, path) THEN "none"
    ELSE IF CacheGetTry(fs, path, t) \in CaughtByGet THEN "none"
    ELSE CacheGetTry(fs, path, t)

\* get: the value returned (None when there is no file, a corrupt or an expired one)
CacheGetValue(fs, key, t) ==
    LET path == GetCachePath(key) IN
    IF ~Exists(fs, path) THEN PyNone
    ELSE IF CacheGetTry(fs, path, t) # "none" THEN PyNone
    ELSE IF IsExpired(fs[path].timestamp, t) THEN PyNone
    ELSE JsonLoad(fs[path].value)

\* mutant of CacheGetFiles: the expired file is left in place
CacheGetFilesKeepExpired(fs, key, t) ==
    LET path == GetCachePath(key) IN
    IF Exists(fs, path) /\ CacheGetTry(fs, path, t) \in CaughtByGet
    THEN Unlink(fs, path) ELSE fs

\* mutant of CacheGetFiles: the invalid file is left in place
CacheGetFilesKeepInvalid(fs, key, t) ==
    LET path == GetCachePath(key) IN
    IF Exists(fs, path) /\ CacheGetTry(fs, path, t) = "none"
       /\ IsExpired(fs[path].timestamp, t)
    THEN Unlink(fs, path) ELSE fs

\* get: the directory after the call (an expired file is unlinked, and so is
\* one on which a caught exception was raised)
CacheGetFiles(fs, key, t) ==
    LET path == GetCachePath(key) IN
    IF ~Exists(fs, path) THEN fs
    ELSE IF CacheGetTry(fs, path, t) \in CaughtByGet THEN Unlink(fs, path)
    ELSE IF CacheGetTry(fs, path, t) # "none" THEN fs
    ELSE IF IsExpired(fs[path].timestamp, t) THEN Unlink(fs, path)
    ELSE fs

\* set: the directory after the call
CacheSetFiles(fs, key, value, t) ==
    LET path == GetCachePath(key) IN
    IF value.t \in SerializableTypes
    THEN WriteFile(fs, path, Entry(t, JsonDump(value)))
    ELSE WriteFile(fs, path, Partial(t))

\* get_info: the dict returned, or None when there is no file or a corrupt one
\* (of its items, those computed from timestamp, ttl and time.time())
CacheGetInfo(fs, key, t) ==
    LET path == GetCachePath(key) IN
    IF ~Exists(fs, path) THEN PyNone
    ELSE IF fs[path].form \notin {"entry", "no_value"} THEN PyNone
    ELSE LET timestamp == fs[path].timestamp
             age_seconds == t - timestamp
             expires_in == CacheTtl - age_seconds
         IN  [t |-> "info", key |-> key, timestamp |-> timestamp,
              age_seconds |-> age_seconds, expires_in |-> expires_in,
              expired |-> expires_in <= 0]

\* get_info: the exception that leaves the method ("none" when it returns)
CacheGetInfoRaises(fs, key, t) ==
    LET path == GetCachePath(key) IN
    IF Exists(fs, path) /\ fs[path].form \in TypeErrorForms THEN "TypeError"
    ELSE "none"

\* mutant of CacheGetInfoFiles: get_info cleans up like get
CacheGetInfoFilesLikeGet(fs, key, t) == CacheGetFiles(fs, key, t)

\* get_info: the directory after the call (the file is only read)
CacheGetInfoFiles(fs, key, t) == fs

\* mutant of CacheDeleteFiles: the file is left in place
CacheDeleteFilesNothing(fs, key) == fs

\* delete: the directory after the call
CacheDeleteFiles(fs, key) ==
    LET path == GetCachePath(key) IN
    IF Exists(fs, path) THEN Unlink(fs, path) ELSE fs

\* clear: every *.json file of the directory is unlinked
CacheClearFiles(fs) == [p \in {q \in DOMAIN fs : q[Len(q)] # ".json"} |-> fs[p]]

---------------------------------------------------------------------------
(* The store used directly: the FileCache methods as actions *)

\* the keys and values the store is called with
CacheKeys == {<<"k", "1">>, <<"a", "/", "b">>, <<"a", " ", "b">>}
SetValues == {PyDict("none", 1), PyDict("none", 2), PyList(1), PyTuple(1),
              PyNone, PySet(1)}

NoClient == [variant |-> "none", use_cache |-> FALSE, uses |-> "none"]
IdleCall == [pc |-> "idle"]
NoPrev == [status |-> "none"]
NoOp == [name |-> "none", key |-> <<>>, ret |-> PyNone, at |-> 0, hadFile |-> FALSE,
         raised |-> "none"]

\* a store exists: a FileCache of its own, or the cache of a client with use_cache
HasStore == client.variant = "none" \/ client.use_cache
\* no client operation is running (the synchronous caller is between calls)
BetweenCalls == call.pc \in {"idle", "done"}

\* the finished call, marked: the user deleted or cleared cache records after it
Touched == IF call.pc = "done" THEN [call EXCEPT !.touched = TRUE] ELSE call

\* the histories are kept of a store used directly, not of a client's
Direct == client.variant = "none"

Record(path, key, value, t) ==
    [p \in DOMAIN written \cup {path} |->
        IF p = path THEN [key |-> key, value |-> value, at |-> t] ELSE written[p]]

Forget(paths) == [p \in DOMAIN written \ paths |-> written[p]]

\* the record of a call that returned ret, or that raised
CalledRaising(name, key, ret, hadFile, raised) ==
    IF Direct
    THEN [name |-> name, key |-> key, ret |-> IF raised = "none" THEN ret ELSE PyNone,
          at |-> now, hadFile |-> hadFile, raised |-> raised]
    ELSE lastOp

Called(name, key, ret, hadFile) == CalledRaising(name, key, ret, hadFile, "none")

FileCache_get(key) ==
    /\ Direct
    /\ files' = CacheGetFiles(files, key, now)
    /\ lastOp' = CalledRaising("get", key, CacheGetValue(files, key, now),
                                Exists(files, GetCachePath(key)),
                                CacheGetRaises(files, key, now))
    /\ UNCHANGED <<now, written, client, call, prev, life, fan, threads, scraper>>

FileCache_set(key, value) ==
    /\ Direct
    /\ files' = CacheSetFiles(files, key, value, now)
    /\ written' = Record(GetCachePath(key), key, value, now)
    /\ lastOp' = Called("set", key, PyNone, Exists(files, GetCachePath(key)))
    /\ UNCHANGED <<now, client, call, prev, life, fan, threads, scraper>>

FileCache_delete(key) ==
    /\ HasStore /\ BetweenCalls
    /\ files' = CacheDeleteFiles(files, key)
    /\ written' = IF Direct THEN Forget({GetCachePath(key)}) ELSE written
    /\ lastOp' = Called("delete", key, PyNone, Exists(files, GetCachePath(key)))
    /\ call' = Touched
    /\ UNCHANGED <<now, client, prev, life, fan, threads, scraper>>

FileCache_clear ==
    /\ HasStore /\ BetweenCalls
    /\ files' = CacheClearFiles(files)
    /\ written' = Forget(DOMAIN written)
    /\ lastOp' = Called("clear", <<>>, PyNone, DOMAIN files # {})
    /\ call' = Touched
    /\ UNCHANGED <<now, client, prev, life, fan, threads, scraper>>

FileCache_get_info(key) ==
    /\ Direct
    /\ files' = CacheGetInfoFiles(files, key, now)
    /\ lastOp' = CalledRaising("get_info", key, CacheGetInfo(files, key, now),
                                Exists(files, GetCachePath(key)),
                                CacheGetInfoRaises(files, key, now))
    /\ UNCHANGED <<now, written, client, call, prev, life, fan, threads, scraper>>

\* time passes between calls
Tick ==
    /\ BetweenCalls
    /\ now < MaxTime
    /\ now' = now + 1
    /\ UNCHANGED <<files, written, lastOp, client, call, prev, life, fan, threads, scraper>>

\* a FileCache constructed on an empty directory
InitCache ==
    /\ now = 0
    /\ files = <<>>
    /\ written = <<>>
    /\ lastOp = NoOp
    /\ client = NoClient
    /\ call = IdleCall
    /\ prev = NoPrev
    /\ session = NoSession
    /\ sessions = <<>>
    /\ scope = NoScope
    /\ fan = NoFan
    /\ threads = <<>>
    /\ scraper = [pc |-> "idle"]

NextCache ==
    \/ \E key \in CacheKeys : FileCache_get(key)
    \/ \E key \in CacheKeys, value \in SetValues : FileCache_set(key, value)
    \/ \E key \in CacheKeys : FileCache_delete(key)
    \/ FileCache_clear
    \/ \E key \in CacheKeys : FileCache_get_info(key)
    \/ Tick

SpecCache == InitCache /\ [][NextCache]_vars

---------------------------------------------------------------------------
(* The store on a directory that already holds a record, written by any program *)

DiskKeys == {<<"k", "1">>, <<"a", "/", "b">>}
DiskValues == {PyDict("none", 1), PyNone}

\* what the file at a key's path may hold when the FileCache is constructed
DiskContents ==
    {Entry(0, JsonDump(v)) : v \in DiskValues}
    \cup {Partial(0), Malformed("not_object", 0, JsonDump(PyNone)),
          Malformed("no_value", 0, JsonDump(PyNone))}
    \cup {Malformed(form, 0, JsonDump(v)) :
             form \in {"no_timestamp", "text_timestamp"}, v \in DiskValues}

\* a FileCache constructed at time t on one of the directories dirs
InitStore(t, dirs) ==
    /\ now = t
    /\ files \in dirs
    /\ written = <<>>
    /\ lastOp = NoOp
    /\ client = NoClient
    /\ call = IdleCall
    /\ prev = NoPrev
    /\ session = NoSession
    /\ sessions = <<>>
    /\ scope = NoScope
    /\ fan = NoFan
    /\ threads = <<>>
    /\ scraper = [pc |-> "idle"]

InitDisk ==
    InitStore(0, {[p \in {GetCachePath(k)} |-> c] : k \in DiskKeys, c \in DiskContents})

NextDisk ==
    \/ \E key \in DiskKeys : FileCache_get(key)
    \/ \E key \in DiskKeys : FileCache_get_info(key)
    \/ \E key \in DiskKeys, value \in DiskValues : FileCache_set(key, value)
    \/ Tick

SpecDisk == InitDisk /\ [][NextDisk]_vars

---------------------------------------------------------------------------
(* The store used by several threads or processes at once: get and set on one
   key, each file-system call a step of its own (the methods take no lock) *)

RaceKey == <<"k", "1">>
RacePath == GetCachePath(RaceKey)

\* write(2) at offset 0 of a file that was not truncated since: the bytes
\* beyond the new document stay (the document numbered d stands for one of
\* length d, and an empty file has length 0)
Overlay(old, new) ==
    IF old.form # "empty" /\ old.value.data > new.value.data
    THEN Mixed(old.value) ELSE new

\* thread i moves to pc, the others as they are in ths
Moved(ths, i, pc) == [ths EXCEPT ![i].pc = pc]
\* thread i returns ret, or raises
Ended(ths, i, ret, raised) ==
    [ths EXCEPT ![i].pc = "done", ![i].ret = ret, ![i].raised = raised]
\* the path was unlinked: file objects opened on it write to a file without a name
Orphaned(ths) == [j \in DOMAIN ths |-> [ths[j] EXCEPT !.linked = FALSE]]

\* a thread enters get(RaceKey) or set(RaceKey, value)
Thread_call(op, value) ==
    /\ Direct
    /\ Len(threads) < MaxThreads
    /\ threads' = Append(threads, [op |-> op, value |-> value, pc |-> "start",
                                    linked |-> FALSE, ret |-> PyNone, raised |-> "none"])
    /\ UNCHANGED <<now, files, written, lastOp, client, call, prev, life, fan, scraper>>

\* set: open(cache_path, 'w'), then json.dump and close (the buffer is flushed)
Thread_set(i) ==
    /\ threads[i].op = "set"
    /\ CASE threads[i].pc = "start" ->
              /\ files' = WriteFile(files, RacePath, EmptyFile)
              /\ threads' = [Moved(threads, i, "opened") EXCEPT ![i].linked = TRUE]
         [] threads[i].pc = "opened" ->
              /\ files' = IF threads[i].linked
                           THEN WriteFile(files, RacePath,
                                          Overlay(files[RacePath],
                                                  Entry(now, JsonDump(threads[i].value))))
                           ELSE files
              /\ threads' = Ended(threads, i, PyNone, "none")
         [] OTHER -> FALSE
    /\ UNCHANGED <<now, written, lastOp, client, call, prev, life, fan, scraper>>

\* get: exists(), open and json.load, the expiry test and unlink(), and in the
\* handler exists() and unlink()
Thread_get(i) ==
    /\ threads[i].op = "get"
    /\ CASE threads[i].pc = "start" ->
              /\ threads' = IF Exists(files, RacePath) THEN Moved(threads, i, "load")
                             ELSE Ended(threads, i, PyNone, "none")
              /\ files' = files
         [] threads[i].pc = "load" ->
              /\ threads' =
                    IF ~Exists(files, RacePath) THEN Moved(threads, i, "except")
                    ELSE IF CacheGetTry(files, RacePath, now) \in CaughtByGet
                    THEN Moved(threads, i, "except")
                    ELSE IF CacheGetTry(files, RacePath, now) # "none"
                    THEN Ended(threads, i, PyNone, CacheGetTry(files, RacePath, now))
                    ELSE IF IsExpired(files[RacePath].timestamp, now)
                    THEN Moved(threads, i, "unlink")
                    ELSE Ended(threads, i, JsonLoad(files[RacePath].value), "none")
              /\ files' = files
         [] threads[i].pc = "unlink" ->
              /\ threads' = IF Exists(files, RacePath)
                             THEN Orphaned(Ended(threads, i, PyNone, "none"))
                             ELSE Moved(threads, i, "except")
              /\ files' = Unlink(files, RacePath)
         [] threads[i].pc = "except" ->
              /\ threads' = IF Exists(files, RacePath)
                             THEN Moved(threads, i, "except_unlink")
                             ELSE Ended(threads, i, PyNone, "none")
              /\ files' = files
         [] threads[i].pc = "except_unlink" ->
              /\ threads' = IF Exists(files, RacePath)
                             THEN Orphaned(Ended(threads, i, PyNone, "none"))
                             ELSE Ended(threads, i, PyNone, "FileNotFoundError")
              /\ files' = Unlink(files, RacePath)
         [] OTHER -> FALSE
    /\ UNCHANGED <<now, written, lastOp, client, call, prev, life, fan, scraper>>

\* the directory is empty, or holds a fresh or an expired entry of the key
InitRace ==
    InitStore(CacheTtl + 1,
              {<<>>} \cup {[p \in {RacePath} |-> Entry(ts, JsonDump(PyDict("none", 2)))] :
                             ts \in {0, CacheTtl + 1}})

NextRace ==
    \/ \E value \in {PyDict("none", 1), PyDict("none", 2)} : Thread_call("set", value)
    \/ Thread_call("get", PyNone)
    \/ \E i \in DOMAIN threads : Thread_set(i)
    \/ \E i \in DOMAIN threads : Thread_get(i)

SpecRace == InitRace /\ [][NextRace]_vars

---------------------------------------------------------------------------
(* Error taxonomy: grokipedia_api/exceptions.py *)

\* GrokipediaError and its three subclasses
GrokipediaErrors == {"GrokipediaError", "GrokipediaNotFoundError",
                     "GrokipediaAPIError", "GrokipediaRateLimitError"}

\* exceptions of other libraries that the client methods do not catch
ForeignErrors == {"asyncio.TimeoutError", "json.JSONDecodeError", "AttributeError",
                  "RuntimeError", "TypeError"}

---------------------------------------------------------------------------
(* Retry policy: the @retry decorators of client.py and async_client.py *)

\* stop=stop_after_attempt(3)
MaxAttempts == 3
\* wait=wait_exponential(multiplier=1, min=1, max=10)
WaitMultiplier == 1
WaitMin == 1
WaitMax == 10

Max(x, y) == IF x >= y THEN x ELSE y
Min(x, y) == IF x <= y THEN x ELSE y

\* mutant of ShouldRetry: only the generic transport error is retried
ShouldRetryTransportOnly(error) == error = "GrokipediaError"

\* retry=retry_if_exception_type((GrokipediaError, RequestException / ClientError)):
\* every exception a method raises itself is a GrokipediaError (isinstance is true
\* of the subclasses); the foreign ones are none of these types
ShouldRetry(error) == error \in GrokipediaErrors

\* mutant of StopAfterAttempt: the policy never gives up
StopNever(attempt_number) == FALSE

\* mutant of StopAfterAttempt: the policy gives up one attempt early
StopAfterTwo(attempt_number) == attempt_number >= MaxAttempts - 1

\* stop_after_attempt: attempt_number >= max_attempt_number
StopAfterAttempt(attempt_number) == attempt_number >= MaxAttempts

\* wait_exponential: max(max(0, min), min(multiplier * 2 ** (attempt_number - 1), max))
WaitFixed(attempt_number) ==
    Max(Max(0, WaitMin), Min(WaitMultiplier, WaitMax))

WaitExponential(attempt_number) ==
    Max(Max(0, WaitMin), Min(WaitMultiplier * 2 ^ (attempt_number - 1), WaitMax))

\* mutant of Reraise: the decorator without reraise=True
ReraiseOff == FALSE

\* reraise=True: when the policy stops, the last attempt's exception is raised
\* itself (tenacity would raise a RetryError wrapping it otherwise)
Reraise == TRUE

\* the exception the caller sees when the attempt numbered attempt_number raised error
Surfaced(error, attempt_number) ==
    IF ShouldRetry(error) /\ StopAfterAttempt(attempt_number) /\ ~Reraise
    THEN "tenacity.RetryError"
    ELSE error

---------------------------------------------------------------------------
(* What the remote service, or the network, answers to one HTTP call *)

NoBody == [form |-> "none", value |-> PyNone]
\* a body that is a JSON text, sent as application/json
JsonBody(v) == [form |-> "json", value |-> v]
\* a body sent as application/json that is no JSON text
BadJsonBody == [form |-> "badjson", value |-> PyNone]
\* a body of another content type (an HTML error page)
HtmlBody == [form |-> "html", value |-> PyNone]

ConnectionFailure == [kind |-> "connection_error", status |-> 0, body |-> NoBody]
Timeout == [kind |-> "timeout", status |-> 0, body |-> NoBody]
HttpResponse(status, body) == [kind |-> "response", status |-> status, body |-> body]
NoResponse == [kind |-> "none", status |-> 0, body |-> NoBody]

\* the JSON documents the service may send for an operation
ServerValues(op) ==
    IF op = "get_page"
    THEN {PyDict("true", 1), PyDict("true", 2), PyDict("false", 1),
          PyDict("none", 1), PyNone}
    ELSE {PyDict("none", 1), PyDict("none", 2), PyNone}

Responses(op) ==
    {ConnectionFailure, Timeout}
    \cup {HttpResponse(200, JsonBody(v)) : v \in ServerValues(op)}
    \cup {HttpResponse(200, BadJsonBody), HttpResponse(200, HtmlBody)}
    \cup {HttpResponse(304, JsonBody(PyDict("none", 1)))}
    \cup {HttpResponse(404, JsonBody(PyDict("false", 1))),
          HttpResponse(429, HtmlBody),
          HttpResponse(500, JsonBody(PyDict("false", 1)))}

---------------------------------------------------------------------------
(* One attempt of a client method: the method body under the decorator *)

Returned(v) == [raised |-> "none", value |-> v]
Raised(e) == [raised |-> e, value |-> PyNone]

\* f"search:{query}:{limit}:{offset}", f"page:{slug}:{include_content}:{validate_links}",
\* f"edit_requests:{slug}:{limit}:{offset}"
\* str() of a bool, and of an int below 10
FormatBool(x) == IF x THEN <<"T", "r", "u", "e">> ELSE <<"F", "a", "l", "s", "e">>
FormatInt(x) == <<DigitChars[x + 1]>>
Format(op, x) == IF op = "get_page" THEN FormatBool(x) ELSE FormatInt(x)
KeyPrefix(op) ==
    CASE op = "search" -> <<"s", "e", "a", "r", "c", "h">>
      [] op = "get_page" -> <<"p", "a", "g", "e">>
      [] op = "list_edit_requests_by_slug" ->
            <<"e", "d", "i", "t", "_", "r", "e", "q", "u", "e", "s", "t", "s">>
CacheKey(op, arg1, arg2, arg3) ==
    KeyPrefix(op) \o <<":">> \o arg1 \o <<":">> \o Format(op, arg2)
        \o <<":">> \o Format(op, arg3)

\* requests: Response.raise_for_status raises HTTPError for 400 <= status < 600
RequestsRaiseForStatus(status) == 400 <= status /\ status < 600
\* aiohttp: ClientResponse.raise_for_status raises ClientResponseError for 400 <= status
AiohttpRaiseForStatus(status) == 400 <= status

\* mutant of StatusError: the except clause lacks the 429 case
StatusErrorNoRateLimit(status) ==
    IF status = 404 THEN "GrokipediaNotFoundError" ELSE "GrokipediaAPIError"

\* the except clauses: 404 -> NotFound, 429 -> RateLimit, otherwise APIError
StatusError(status) ==
    IF status = 404 THEN "GrokipediaNotFoundError"
    ELSE IF status = 429 THEN "GrokipediaRateLimitError"
    ELSE "GrokipediaAPIError"

\* mutant of CheckFound: a missing "found" item counts as found
CheckFoundDefaultTrue(op, data) ==
    IF op # "get_page" THEN Returned(data)
    ELSE IF data.t # "dict" THEN Raised("AttributeError")
    ELSE IF data.found = "false" THEN Raised("GrokipediaNotFoundError")
    ELSE Returned(data)

\* get_page: if not data.get("found", False): raise GrokipediaNotFoundError
CheckFound(op, data) ==
    IF op # "get_page" THEN Returned(data)
    ELSE IF data.t # "dict" THEN Raised("AttributeError")
    ELSE IF data.found # "true" THEN Raised("GrokipediaNotFoundError")
    ELSE Returned(data)

\* GrokipediaClient: the try block of search / get_page / list_edit_requests_by_slug.
\* requests.exceptions.JSONDecodeError, raised by response.json(), is a
\* RequestException (requests >= 2.27)
SyncRequest(op, resp) ==
    IF resp.kind \in {"connection_error", "timeout"} THEN Raised("GrokipediaError")
    ELSE IF RequestsRaiseForStatus(resp.status) THEN Raised(StatusError(resp.status))
    ELSE IF resp.body.form # "json" THEN Raised("GrokipediaError")
    ELSE CheckFound(op, resp.body.value)

\* AsyncGrokipediaClient: the try block of search / get_page.  The total timeout
\* raises asyncio.TimeoutError, which is no aiohttp.ClientError; response.json()
\* raises ContentTypeError (a ClientResponseError carrying the response's status)
\* for a body that is not application/json, and json.JSONDecodeError for a
\* malformed one
AsyncRequest(op, resp) ==
    IF resp.kind = "connection_error" THEN Raised("GrokipediaError")
    ELSE IF resp.kind = "timeout" THEN Raised("asyncio.TimeoutError")
    ELSE IF resp.status = 429 THEN Raised("GrokipediaRateLimitError")
    ELSE IF AiohttpRaiseForStatus(resp.status) THEN Raised(StatusError(resp.status))
    ELSE IF resp.body.form = "html" THEN Raised(StatusError(resp.status))
    ELSE IF resp.body.form # "json" THEN Raised("json.JSONDecodeError")
    ELSE CheckFound(op, resp.body.value)

\* the operations each client class has
Ops(variant) ==
    IF variant = "sync" THEN {"search", "get_page", "list_edit_requests_by_slug"}
    ELSE IF variant = "async" THEN {"search", "get_page"}
    ELSE {}

\* mutant of UsesCache: the cache is used whatever use_cache says
UsesCacheAlways(c) == c.variant = "sync"

\* if self.use_cache and self.cache: the cache is looked up, and the result stored
UsesCache(c) == c.variant = "sync" /\ c.use_cache

\* cached = self.cache.get(cache_key); if cached is not None: return cached
CacheHit(c, key, fs, t) == UsesCache(c) /\ CacheGetValue(fs, key, t) # PyNone

\* mutant of StoreResult: the result is never stored
StoreResultNever(c, key, fs, outcome, t) == fs

\* self.cache.set(cache_key, result) after a successful request
StoreResult(c, key, fs, outcome, t) ==
    IF UsesCache(c) /\ outcome.raised = "none"
    THEN CacheSetFiles(fs, key, outcome.value, t)
    ELSE fs

---------------------------------------------------------------------------
(* The client operations as a state machine *)

\* the clients constructed: GrokipediaClient(use_cache=True / False) and
\* AsyncGrokipediaClient(), which has no cache.  A behaviour follows a caller
\* that uses one operation of its client: the cache keys of different operations
\* never share a file (their prefixes differ), so the operations do not interact
Clients ==
    {[variant |-> "sync", use_cache |-> u, uses |-> op] :
        u \in BOOLEAN, op \in Ops("sync")}
    \cup {[variant |-> "async", use_cache |-> FALSE, uses |-> op] : op \in Ops("async")}

\* the parameters the operations are called with
Queries == {<<"a", "/", "b">>, <<"a", " ", "b">>}
Limits == {5}
Offsets == {0}
Arg2(op) == IF op = "get_page" THEN {TRUE} ELSE Limits
Arg3(op) == IF op = "get_page" THEN {TRUE} ELSE Offsets

AllOps == Ops("sync") \cup Ops("async")
ClientKeys ==
    {CacheKey(op, arg1, arg2, arg3) :
        <<op, arg1, arg2, arg3>> \in
            UNION {{o} \X Queries \X Arg2(o) \X Arg3(o) : o \in AllOps}}

Request(variant, op, resp) ==
    IF variant = "sync" THEN SyncRequest(op, resp) ELSE AsyncRequest(op, resp)

KeyOf(c) == CacheKey(c.op, c.arg1, c.arg2, c.arg3)

\* what is kept of a finished call when the next one starts: of a call that
\* returned, its parameters, its result, the HTTP calls it made and whether cache
\* records were deleted after it
Summary(c) ==
    IF c.outcome.raised # "none" THEN [status |-> "raised"]
    ELSE [status |-> "returned",
          op |-> c.op, arg1 |-> c.arg1, arg2 |-> c.arg2, arg3 |-> c.arg3,
          value |-> c.outcome.value, net |-> c.net, touched |-> c.touched]

\* the caller invokes a method of the client
BeginCall(op, arg1, arg2, arg3) ==
    /\ BetweenCalls
    /\ op \in Ops(client.variant)
    /\ op = client.uses
    /\ call' = [pc |-> "attempt", op |-> op, arg1 |-> arg1, arg2 |-> arg2,
                arg3 |-> arg3, attempt_number |-> 0, hist |-> <<>>,
                resp |-> NoResponse, outcome |-> Returned(PyNone), net |-> 0,
                expired |-> FALSE, touched |-> FALSE,
                session |-> NoSession, stale |-> FALSE]
    /\ prev' = IF call.pc = "done" THEN Summary(call) ELSE prev
    /\ scope' = [scope EXCEPT !.last = "call"]
    /\ UNCHANGED <<now, files, written, lastOp, client, session, sessions, fan, threads, scraper>>

\* the attempt ends the call: with its result, or with the exception tenacity raises
Finish(n, resp, out, net, expired) ==
    [call EXCEPT !.pc = "done", !.attempt_number = n,
                 !.hist = Append(@, out.raised), !.resp = resp,
                 !.outcome = IF out.raised = "none" THEN out
                             ELSE Raised(Surfaced(out.raised, n)),
                 !.net = net, !.expired = @ \/ expired]

\* the attempt raised an exception the policy retries
Retry(n, resp, out, net, expired) ==
    [call EXCEPT !.pc = "wait", !.attempt_number = n,
                 !.hist = Append(@, out.raised), !.resp = resp,
                 !.outcome = out, !.net = net, !.expired = @ \/ expired]

\* the session an attempt sent its request on, and whether it was closed then
Used(c, s, stale) == [c EXCEPT !.session = s, !.stale = stale]

\* tenacity runs the method body once: (asynchronous client) _ensure_session,
\* (synchronous client) cache lookup, then the HTTP call on self.session, error
\* mapping, cache store; then it decides between returning, retrying and raising
Attempt ==
    /\ call.pc = "attempt"
    /\ LET key == KeyOf(call)
           path == GetCachePath(key)
           n == call.attempt_number + 1
           looked == IF UsesCache(client) THEN CacheGetFiles(files, key, now) ELSE files
           \* the lookup found the record expired (and unlinked it)
           expired == /\ UsesCache(client) /\ Exists(files, path)
                      /\ files[path].form = "entry"
                      /\ IsExpired(files[path].timestamp, now)
           ss == EnsuredSessions(client.variant, sessions, session)
           s == EnsuredSession(client.variant, sessions, session)
       IN  /\ sessions' = ss
           /\ session' = s
           /\ IF UsesCache(client) /\ CacheGetRaises(files, key, now) # "none"
              THEN /\ call' = Finish(n, NoResponse,
                                     Raised(CacheGetRaises(files, key, now)),
                                     call.net, FALSE)
                   /\ files' = looked
              ELSE IF CacheHit(client, key, files, now)
              THEN /\ call' = Finish(n, NoResponse,
                                     Returned(CacheGetValue(files, key, now)),
                                     call.net, FALSE)
                   /\ files' = looked
              ELSE IF SessionRefuses(client.variant, ss, s)
              THEN /\ call' = Used(Finish(n, NoResponse, Raised("RuntimeError"),
                                          call.net, expired), s, TRUE)
                   /\ files' = looked
              ELSE \E resp \in Responses(call.op) :
                     LET out == Request(client.variant, call.op, resp)
                         c == IF out.raised = "none"
                              THEN Finish(n, resp, out, call.net + 1, expired)
                              ELSE IF ShouldRetry(out.raised) /\ ~StopAfterAttempt(n)
                              THEN Retry(n, resp, out, call.net + 1, expired)
                              ELSE Finish(n, resp, out, call.net + 1, expired)
                     IN  /\ files' = StoreResult(client, key, looked, out, now)
                         /\ call' = Used(c, s, ss[s].closed)
    /\ UNCHANGED <<now, written, lastOp, client, prev, scope, fan, threads, scraper>>

\* tenacity sleeps before the next attempt
Backoff ==
    /\ call.pc = "wait"
    /\ now + WaitExponential(call.attempt_number) <= MaxTime
    /\ now' = now + WaitExponential(call.attempt_number)
    /\ call' = [call EXCEPT !.pc = "attempt"]
    /\ UNCHANGED <<files, written, lastOp, client, prev, life, fan, threads, scraper>>

\* the default cache directory, ~/.grokipedia_cache, outlives the client: one
\* constructed with use_cache=False may find in it a record that an earlier
\* client left under the key of one of its own calls; a caching client starts
\* on an empty directory
LeftKey(c) ==
    CacheKey(c.uses, <<"a", "/", "b">>, CHOOSE x \in Arg2(c.uses) : TRUE,
             CHOOSE x \in Arg3(c.uses) : TRUE)
LeftValue(c) == IF c.uses = "get_page" THEN PyDict("true", 2) ELSE PyDict("none", 2)
StartFiles(c) ==
    IF c.variant = "sync" /\ ~c.use_cache
    THEN {<<>>, WriteFile(<<>>, GetCachePath(LeftKey(c)),
                          Entry(0, JsonDump(LeftValue(c))))}
    ELSE {<<>>}

Init ==
    /\ now = 0
    /\ client \in Clients
    /\ files \in StartFiles(client)
    /\ written = <<>>
    /\ lastOp = NoOp
    /\ call = IdleCall
    /\ prev = NoPrev
    /\ session = InitSession(client.variant)
    /\ sessions = InitSessions(client.variant)
    /\ scope = NoScope
    /\ fan = NoFan
    /\ threads = <<>>
    /\ scraper = [pc |-> "idle"]

Next ==
    \/ \E op \in AllOps :
         \E arg1 \in Queries, arg2 \in Arg2(op), arg3 \in Arg3(op) :
            BeginCall(op, arg1, arg2, arg3)
    \/ Attempt
    \/ Backoff
    \/ \E key \in ClientKeys : FileCache_delete(key)
    \/ FileCache_clear
    \/ Tick

Spec == Init /\ [][Next]_vars

\* a call that begins while the clock leaves room for its two waits
BeginCallInTime(op, arg1, arg2, arg3) ==
    /\ now + WaitExponential(1) + WaitExponential(2) <= MaxTime
    /\ BeginCall(op, arg1, arg2, arg3)

NextLive ==
    \/ \E op \in AllOps :
         \E arg1 \in Queries, arg2 \in Arg2(op), arg3 \in Arg3(op) :
            BeginCallInTime(op, arg1, arg2, arg3)
    \/ Attempt
    \/ Backoff
    \/ Tick

\* the caller's thread keeps running: an attempt under way ends (the HTTP call
\* answers or hits its timeout), and a sleep ends
SpecLive == Init /\ [][NextLive]_vars /\ WF_vars(Attempt) /\ WF_vars(Backoff)

---------------------------------------------------------------------------
(* The derivation of cache paths: the keys of the client operations through
   FileCache._get_cache_path *)

\* the characters of the queries and slugs whose keys are derived
QueryChars == {"a", "5", "-", "_", "/", " ", ":", "U+00E9", "U+0663"}

PathQueries == UNION {[1..k -> QueryChars] : k \in 1..MaxQueryLen}

\* the cache keys the client operations build for them
PathKeys ==
    {CacheKey(op, arg1, arg2, arg3) :
        <<op, arg1, arg2, arg3>> \in
            UNION {{o} \X PathQueries \X Arg2(o) \X Arg3(o) : o \in AllOps}}

\* the name of the file without its ".json" suffix: safe_key
SafeKey(path) == SubSeq(path, 1, Len(path) - 1)

FileCache_get_cache_path(key) ==
    /\ Direct
    /\ lastOp' = Called("_get_cache_path", key, GetCachePath(key), FALSE)
    /\ UNCHANGED <<now, files, written, client, call, prev, life, fan, threads, scraper>>

NextPath == \E key \in PathKeys : FileCache_get_cache_path(key)

SpecPath == InitCache /\ [][NextPath]_vars

---------------------------------------------------------------------------
(* The client's lifecycle: close() and the with-block *)

\* what the body of a with-block ends with: "none", or an exception it raised
BodyExceptions == {"none", "GrokipediaError", "KeyError"}

\* __exit__ / __aexit__: return False
ExitReturns == FALSE

\* close(): self.session.close()
Client_close ==
    /\ client.variant \in {"sync", "async"}
    /\ BetweenCalls
    /\ session # NoSession => sessions[session].releases < MaxReleases
    /\ sessions' = ClientClose(client.variant, sessions, session)
    /\ scope' = [scope EXCEPT !.last = "close"]
    /\ UNCHANGED <<now, files, written, lastOp, client, call, prev, session, fan, threads, scraper>>

\* with client: / async with client:  __enter__ returns self; __aenter__ assigns
\* a new ClientSession to self.session and returns self
Client_enter ==
    /\ client.variant \in {"sync", "async"}
    /\ BetweenCalls
    /\ scope.depth < MaxScopes
    /\ client.variant = "async" => Len(sessions) < MaxSessions
    /\ sessions' = IF client.variant = "async"
                   THEN Append(sessions, NewSession) ELSE sessions
    /\ session' = IF client.variant = "async" THEN Len(sessions) + 1 ELSE session
    /\ scope' = [scope EXCEPT !.depth = @ + 1, !.last = "enter"]
    /\ UNCHANGED <<now, files, written, lastOp, client, call, prev, fan, threads, scraper>>

\* the with-block is left, its body having ended with exc: __exit__ / __aexit__
\* close the session and return False, so that exc propagates
Client_exit(exc) ==
    /\ client.variant \in {"sync", "async"}
    /\ BetweenCalls
    /\ scope.depth > 0
    /\ session # NoSession => sessions[session].releases < MaxReleases
    /\ sessions' = ClientClose(client.variant, sessions, session)
    /\ scope' = [depth |-> scope.depth - 1, last |-> "exit", exc |-> exc,
                 propagated |-> IF ExitReturns THEN "none" ELSE exc]
    /\ UNCHANGED <<now, files, written, lastOp, client, call, prev, session, fan, threads, scraper>>

\* a client constructed without a cache, used and closed in any order
InitLifecycle ==
    /\ Init
    /\ ~client.use_cache
    /\ files = <<>>

NextSession ==
    \/ \E op \in AllOps :
         \E arg1 \in Queries, arg2 \in Arg2(op), arg3 \in Arg3(op) :
            BeginCall(op, arg1, arg2, arg3)
    \/ Attempt
    \/ Backoff
    \/ Client_enter
    \/ \E exc \in BodyExceptions : Client_exit(exc)
    \/ Client_close

SpecSession == InitLifecycle /\ [][NextSession]_vars

---------------------------------------------------------------------------
(* The fan-out helpers: search_many and get_many_pages (async_client.py) *)

FanHelpers == {"search_many", "get_many_pages"}

\* the client method a helper calls for each item
HelperOp(helper) == IF helper = "search_many" THEN "search" ELSE "get_page"

\* the lists of queries / slugs a helper is called with: [], ["1"], ["1", "2"], ..
\* (the helpers treat every item alike, whatever its text)
ItemLists == {[i \in 1..k |-> <<DigitChars[i + 1]>>] : k \in 0..MaxItems}

\* the client a helper constructs: AsyncGrokipediaClient()
HelperClient(helper) ==
    [variant |-> "async", use_cache |-> FALSE, uses |-> HelperOp(helper)]

\* a coroutine client.search(query) / client.get_page(slug) handed to gather;
\* sleep is what remains of its wait before the next attempt
NewTask == [pc |-> "running", attempt_number |-> 0, outcome |-> Returned(PyNone),
            sleep |-> 0]

\* result.get("results", []): the document numbered d stands for one with d results
ResultsOf(v) == [i \in 1..v.data |-> <<"result", v.data, i>>]

\* mutant of ReturnExceptions: gather is called without return_exceptions=True
ReturnExceptionsOff == FALSE

\* asyncio.gather(*tasks, return_exceptions=True)
ReturnExceptions == TRUE

\* the exception gather raises into the helper ("none": it returns the list of
\* results, the exceptions among them)
GatherRaises(outcomes) ==
    IF ReturnExceptions \/ \A i \in 1..Len(outcomes) : outcomes[i].raised = "none"
    THEN "none"
    ELSE outcomes[CHOOSE i \in 1..Len(outcomes) :
                    /\ outcomes[i].raised # "none"
                    /\ \A j \in 1..(i - 1) : outcomes[j].raised = "none"].raised

\* the loop over the gathered results: a dict contributes (search_many: its
\* results, get_many_pages: itself), an exception is printed, anything else skipped
RECURSIVE Collect(_, _)
Collect(helper, outcomes) ==
    IF outcomes = <<>> THEN <<>>
    ELSE LET result == Head(outcomes)
             rest == Collect(helper, Tail(outcomes))
         IN  IF result.raised = "none" /\ result.value.t = "dict"
             THEN (IF helper = "search_many"
                   THEN ResultsOf(result.value) ELSE <<result.value>>) \o rest
             ELSE rest

\* the requests of a helper that are outstanding: started and not finished
InFlight(f) ==
    IF f.pc = "gathering"
    THEN Cardinality({i \in 1..Len(f.tasks) : f.tasks[i].pc = "running"})
    ELSE 0

\* search_many(queries) / get_many_pages(slugs) up to the await of gather:
\* __aenter__ creates the session, one coroutine per item is created and gather
\* schedules them all
FanOut_begin(helper, items) ==
    /\ fan.pc = "idle"
    /\ client' = HelperClient(helper)
    /\ sessions' = <<NewSession>>
    /\ session' = 1
    /\ scope' = [scope EXCEPT !.depth = @ + 1, !.last = "enter"]
    /\ fan' = [pc |-> "gathering", helper |-> helper, items |-> items,
               tasks |-> [i \in 1..Len(items) |-> NewTask],
               result |-> <<>>, raised |-> "none"]
    /\ UNCHANGED <<now, files, written, lastOp, call, prev, threads, scraper>>

\* one attempt of the i-th coroutine: the method body under the retry decorator
Task_attempt(i) ==
    /\ fan.pc = "gathering"
    /\ i \in 1..Len(fan.tasks)
    /\ fan.tasks[i].pc = "running"
    /\ LET n == fan.tasks[i].attempt_number + 1
           op == HelperOp(fan.helper)
       IN  \E resp \in Responses(op) :
             LET out == IF SessionRefuses(client.variant, sessions, session)
                        THEN Raised("RuntimeError")
                        ELSE AsyncRequest(op, resp)
                 again == /\ out.raised # "none"
                          /\ ShouldRetry(out.raised) /\ ~StopAfterAttempt(n)
             IN  fan' = [fan EXCEPT !.tasks[i] =
                           [pc |-> IF again THEN "wait" ELSE "done",
                            attempt_number |-> n,
                            outcome |-> IF out.raised = "none" \/ again THEN out
                                        ELSE Raised(Surfaced(out.raised, n)),
                            sleep |-> IF again THEN WaitExponential(n) ELSE 0]]
    /\ UNCHANGED <<now, files, written, lastOp, client, call, prev, life, threads, scraper>>

\* the sleep of the i-th coroutine before its next attempt is over
Task_wake(i) ==
    /\ fan.pc = "gathering"
    /\ i \in 1..Len(fan.tasks)
    /\ fan.tasks[i].pc = "wait"
    /\ fan.tasks[i].sleep = 0
    /\ fan' = [fan EXCEPT !.tasks[i].pc = "running"]
    /\ UNCHANGED <<now, files, written, lastOp, client, call, prev, life, threads, scraper>>

\* gather is over: the helper filters the results, __aexit__ closes the session
\* and the helper returns (or lets the exception gather raised propagate)
FanOut_end ==
    /\ fan.pc = "gathering"
    /\ \A i \in 1..Len(fan.tasks) : fan.tasks[i].pc = "done"
    /\ LET outcomes == [i \in 1..Len(fan.tasks) |-> fan.tasks[i].outcome]
           exc == GatherRaises(outcomes)
       IN  /\ fan' = [fan EXCEPT !.pc = "done", !.raised = exc,
                                 !.result = IF exc = "none"
                                            THEN Collect(fan.helper, outcomes)
                                            ELSE <<>>]
           /\ scope' = [depth |-> scope.depth - 1, last |-> "exit", exc |-> exc,
                        propagated |-> IF ExitReturns THEN "none" ELSE exc]
    /\ sessions' = ClientClose(client.variant, sessions, session)
    /\ UNCHANGED <<now, files, written, lastOp, client, call, prev, session, threads, scraper>>

\* a second passes while coroutines sleep (asyncio.sleep in the retry
\* decorator): every sleeping coroutine has one second less to wait.  The
\* asynchronous client never reads time.time(), which is left out here
Task_sleep ==
    /\ fan.pc = "gathering"
    /\ \E i \in 1..Len(fan.tasks) : fan.tasks[i].sleep > 0
    /\ fan' = [fan EXCEPT !.tasks =
                  [i \in 1..Len(fan.tasks) |->
                     [fan.tasks[i] EXCEPT !.sleep = Max(0, @ - 1)]]]
    /\ UNCHANGED <<now, files, written, lastOp, client, call, prev, life, threads, scraper>>

InitFanOut == InitCache

NextFanOut ==
    \/ \E helper \in FanHelpers, items \in ItemLists : FanOut_begin(helper, items)
    \/ \E i \in 1..MaxItems : Task_attempt(i)
    \/ \E i \in 1..MaxItems : Task_wake(i)
    \/ FanOut_end
    \/ Task_sleep

SpecFanOut == InitFanOut /\ [][NextFanOut]_vars

---------------------------------------------------------------------------
(* The batch scraper: discover_slugs_from_search (examples/scrape_all_pages.py) *)

\* the values of the limit parameter
PageLimits == {1, 2, 3}

\* what the service may answer to the search for that page: the page, or an
\* answer that search turns into an exception or into a result that is no dict
PageResponses(total, offset, limit) ==
    {r \in Responses("search") : \/ AsyncRequest("search", r).raised # "none"
                                  \/ AsyncRequest("search", r).value.t # "dict"}
    \cup {HttpResponse(200, JsonBody(PyDict("none", Max(0, Min(limit, total - offset)))))}

\* {r.get("slug") for r in results.get("results", []) if r.get("slug")}
PageSlugs(offset, v) == {offset + i : i \in 1..v.data}

\* discover_slugs_from_search(client, query, limit) is called, for a query
\* that has total results
Discover_begin(total, limit) ==
    /\ Direct
    /\ scraper.pc \in {"idle", "returned"}
    /\ scraper' = [pc |-> "search", total |-> total, limit |-> limit,
                    offset |-> 0, discovered |-> {}, attempt_number |-> 0]
    /\ UNCHANGED <<now, files, written, lastOp, client, call, prev, life, fan, threads>>

\* one attempt of client.search under its retry policy and, when it is the last
\* one, the rest of the loop body: the slugs are collected and the loop goes on
\* or ends, or the exception handlers run
Discover_search ==
    /\ scraper.pc = "search"
    /\ \E resp \in PageResponses(scraper.total, scraper.offset, scraper.limit) :
         LET out == AsyncRequest("search", resp)
             n == scraper.attempt_number + 1
             v == out.value
             found == scraper.discovered \cup PageSlugs(scraper.offset, v)
             \* break; return discovered
             broken == [scraper EXCEPT !.pc = "returned", !.attempt_number = 0]
         IN  scraper' =
               IF out.raised # "none" /\ ShouldRetry(out.raised) /\ ~StopAfterAttempt(n)
               THEN [scraper EXCEPT !.attempt_number = n]
               ELSE IF Surfaced(out.raised, n) = "GrokipediaRateLimitError"
               THEN [scraper EXCEPT !.pc = "sleep", !.attempt_number = 0]
               ELSE IF out.raised # "none" THEN broken
               ELSE IF v.t # "dict" THEN broken
               ELSE IF PageSlugs(scraper.offset, v) = {} THEN broken
               ELSE IF v.data < scraper.limit
               THEN [broken EXCEPT !.discovered = found]
               ELSE [scraper EXCEPT !.offset = @ + scraper.limit,
                                    !.discovered = found, !.attempt_number = 0]
    /\ UNCHANGED <<now, files, written, lastOp, client, call, prev, life, fan, threads>>

\* except GrokipediaRateLimitError: await asyncio.sleep(5); continue
Discover_sleep ==
    /\ scraper.pc = "sleep"
    /\ scraper' = [scraper EXCEPT !.pc = "search"]
    /\ UNCHANGED <<now, files, written, lastOp, client, call, prev, life, fan, threads>>

NextScraper ==
    \/ \E total \in 0..MaxResults, limit \in PageLimits : Discover_begin(total, limit)
    \/ Discover_search
    \/ Discover_sleep

\* the event loop keeps running the task: a search under way ends (the HTTP
\* call answers or hits its timeout), and a sleep ends
SpecScraper ==
    InitCache /\ [][NextScraper]_vars /\ WF_vars(Discover_search) /\ WF_vars(Discover_sleep)

---------------------------------------------------------------------------
(* Properties *)

Last(seq) == seq[Len(seq)]

\* a second call of the same operation with the same parameters has finished, the
\* earlier one having returned, with no delete or clear between them and no
\* lookup that found the record expired
SecondCallSameParameters ==
    /\ UsesCache(client)
    /\ call.pc = "done"
    /\ prev.status = "returned"
    /\ prev.op = call.op /\ prev.arg1 = call.arg1
    /\ prev.arg2 = call.arg2 /\ prev.arg3 = call.arg3
    /\ ~prev.touched
    /\ ~call.expired

\* C1 as stated: with caching enabled, calling search, get_page (found) or
\* list_edit_requests_by_slug twice with the same parameters, the first call
\* starting from a cache miss and no expiry, delete or clear in between, returns
\* the same result both times and issues exactly one network call in total.
\* (Read here of calls that return a result other than None.)
C1_TwoCallsOneNetworkCall ==
    (/\ SecondCallSameParameters
     /\ prev.net >= 1 /\ prev.value # PyNone
     /\ call.outcome.raised = "none")
        => /\ call.outcome.value = prev.value
           /\ prev.net + call.net = 1

\* C1 as amended: when the first call returned a result other than None, the
\* second call with the same parameters (no expiry, delete or clear in between)
\* returns that result on its first attempt from the cache, without a network
\* call; the network calls issued in total are those of the first call, one per
\* attempt, at most MaxAttempts.
C1_SecondCallIsCacheHit ==
    (SecondCallSameParameters /\ prev.value # PyNone)
        => /\ call.outcome = Returned(prev.value)
           /\ call.net = 0
           /\ call.attempt_number = 1
           /\ prev.net + call.net <= MaxAttempts

C1_Witness ==
    /\ SecondCallSameParameters
    /\ prev.value.t = "dict"
    /\ prev.net = 1
    /\ call.outcome = Returned(prev.value)
    /\ call.net = 0

\* C2: an entry written by set at time T and read by get at a time later than
\* T + ttl returns None (absent), and after that get the file of the key no
\* longer exists.
C2_ExpiredEntryAbsentAndRemoved ==
    \A key \in CacheKeys :
        LET path == GetCachePath(key) IN
        (/\ lastOp.name = "get" /\ lastOp.key = key
         /\ path \in DOMAIN written
         /\ lastOp.at > written[path].at + CacheTtl)
            => /\ lastOp.ret = PyNone
               /\ ~Exists(files, path)

C2_Witness ==
    \E key \in CacheKeys :
        LET path == GetCachePath(key) IN
        /\ lastOp.name = "get" /\ lastOp.key = key /\ lastOp.hadFile
        /\ path \in DOMAIN written
        /\ written[path].key = key
        /\ written[path].value.t = "dict"
        /\ lastOp.at > written[path].at + CacheTtl
        /\ lastOp.ret = PyNone
        /\ ~Exists(files, path)

\* C3: set(key, v) with v a value of the JSON data model, followed by get(key)
\* before the ttl has elapsed (no delete, clear or other set of the record in
\* between), returns exactly v.
C3_RoundTripBeforeTtl ==
    \A key \in CacheKeys :
        LET path == GetCachePath(key) IN
        (/\ lastOp.name = "get" /\ lastOp.key = key
         /\ path \in DOMAIN written
         /\ written[path].key = key
         /\ written[path].value.t \in JsonModelTypes
         /\ lastOp.at - written[path].at <= CacheTtl)
            => lastOp.ret = written[path].value

C3_Witness ==
    \E key \in CacheKeys :
        LET path == GetCachePath(key) IN
        /\ lastOp.name = "get" /\ lastOp.key = key
        /\ path \in DOMAIN written
        /\ written[path].key = key
        /\ written[path].value.t = "dict"
        /\ lastOp.at - written[path].at = CacheTtl
        /\ lastOp.ret = written[path].value

\* an attempt of the current call has been answered by the network
AttemptAnswered == call.pc \in {"wait", "done"} /\ call.resp.kind # "none"

\* the last attempt of get_page got a response whose body is a JSON object with
\* found false or without a found item
AnsweredNotFound ==
    /\ AttemptAnswered
    /\ call.op = "get_page"
    /\ call.resp.kind = "response"
    /\ call.resp.body.form = "json"
    /\ call.resp.body.value.t = "dict"
    /\ call.resp.body.value.found # "true"

\* no cache file of a get_page caller holds a document that is not a found page
NoNegativeEntry ==
    client.uses = "get_page" =>
        \A path \in DOMAIN files : JsonLoad(files[path].value).found = "true"

\* C4 as stated: get_page on a response whose body has found = false (or no
\* found item) raises NotFound whatever the HTTP status code was, and writes no
\* cache entry.
C4_NotFoundWhateverStatus ==
    /\ AnsweredNotFound => Last(call.hist) = "GrokipediaNotFoundError"
    /\ NoNegativeEntry

\* C4 as amended: such a response makes the attempt raise NotFound when its
\* status is below 400, the only case in which the body is parsed; with a status
\* from 400 up the status alone decides (404 NotFound, 429 RateLimit, otherwise
\* APIError).  In no case is a cache entry written for it.
C4_NotFoundWhenBodyParsed ==
    /\ AnsweredNotFound =>
          Last(call.hist) = IF call.resp.status >= 400
                            THEN StatusError(call.resp.status)
                            ELSE "GrokipediaNotFoundError"
    /\ NoNegativeEntry

C4_Witness ==
    /\ AnsweredNotFound
    /\ UsesCache(client)
    /\ call.resp.status = 200
    /\ call.resp.body.value.found = "none"
    /\ Last(call.hist) = "GrokipediaNotFoundError"
    /\ ~Exists(files, GetCachePath(KeyOf(call)))

\* C5: when the first two attempts fail with the generic transport error the
\* call is not over, and when the third attempt then succeeds the call returns
\* the third attempt's value, the method having run exactly 3 times.
C5_TwoTransportFailuresThenSuccess ==
    /\ (call.pc # "idle" /\ call.hist = <<"GrokipediaError", "GrokipediaError">>)
          => call.pc \in {"wait", "attempt"}
    /\ (call.pc # "idle" /\ Len(call.hist) >= 3
        /\ SubSeq(call.hist, 1, 3) = <<"GrokipediaError", "GrokipediaError", "none">>)
          => /\ call.pc = "done"
             /\ call.attempt_number = 3
             /\ call.net = 3
             /\ call.outcome = Returned(call.resp.body.value)

C5_Witness ==
    /\ call.pc = "done"
    /\ call.hist = <<"GrokipediaError", "GrokipediaError", "none">>
    /\ call.outcome = Returned(PyDict("none", 2))

\* C6 as stated: an attempt that fails with NotFound, APIError or RateLimit is
\* not retried: the error is surfaced at once and the method has run exactly
\* once.
C6_DomainFailureNotRetried ==
    (call.pc # "idle" /\ Len(call.hist) >= 1
     /\ call.hist[1] \in {"GrokipediaNotFoundError", "GrokipediaAPIError",
                          "GrokipediaRateLimitError"})
        => /\ call.pc = "done"
           /\ call.attempt_number = 1
           /\ call.outcome = Raised(call.hist[1])

\* C7: an attempt answered with HTTP 429 below the attempt ceiling does not end
\* the call, and when a later attempt succeeds the call returns that attempt's
\* result instead of raising RateLimit.
C7_RateLimitRetried ==
    /\ (call.pc # "idle" /\ call.hist # <<>> /\ Len(call.hist) < MaxAttempts
        /\ Last(call.hist) = "GrokipediaRateLimitError")
          => call.pc \in {"wait", "attempt"}
    /\ (call.pc = "done" /\ Last(call.hist) = "none" /\ call.resp.kind = "response")
          => call.outcome = Returned(call.resp.body.value)

C7_Witness ==
    /\ call.pc = "done"
    /\ Len(call.hist) >= 2
    /\ call.hist[1] = "GrokipediaRateLimitError"
    /\ Last(call.hist) = "none"
    /\ call.outcome = Returned(call.resp.body.value)
    /\ call.outcome.value.t = "dict"

\* C8: one invocation makes at most 3 attempts, and when its final attempt
\* fails the exception raised to the caller is that attempt's own exception,
\* not a wrapper.
C8_AtMostThreeAttemptsLastErrorRaised ==
    call.pc # "idle" =>
        /\ call.attempt_number <= MaxAttempts
        /\ Len(call.hist) = call.attempt_number
        /\ call.net <= call.attempt_number
        /\ (call.pc = "done" /\ Last(call.hist) # "none")
              => call.outcome = Raised(Last(call.hist))

C8_Witness ==
    /\ call.pc = "done"
    /\ call.attempt_number = MaxAttempts
    /\ call.hist[1] # call.hist[3]
    /\ call.hist[3] = "GrokipediaAPIError"
    /\ call.outcome = Raised("GrokipediaAPIError")

\* the error kind an attempt signals for its answer, given which statuses count
\* as "any other" failing status
ErrorKindByOutcome(otherFailing) ==
    AttemptAnswered =>
        LET e == Last(call.hist)
            r == call.resp
        IN  /\ r.kind = "connection_error" => e = "GrokipediaError"
            /\ (r.kind = "response" /\ r.status = 429) => e = "GrokipediaRateLimitError"
            /\ (r.kind = "response" /\ r.status = 404) => e = "GrokipediaNotFoundError"
            /\ (r.kind = "response" /\ r.status \notin {404, 429}
                /\ r.status \in otherFailing) => e = "GrokipediaAPIError"

C10_FailuresAreGrokipediaErrors ==
    (call.pc = "done" /\ call.outcome.raised # "none")
        => call.outcome.raised \in GrokipediaErrors

\* a second call of the asynchronous client with the parameters of the call
\* before it, which had returned
SecondCallSameParametersAsync ==
    /\ client.variant = "async"
    /\ call.pc = "done"
    /\ prev.status = "returned"
    /\ prev.op = call.op /\ prev.arg1 = call.arg1
    /\ prev.arg2 = call.arg2 /\ prev.arg3 = call.arg3

\* C11 as stated: the asynchronous client applies the cache like the synchronous
\* one: when search or get_page is called twice with the same parameters (no
\* expiry in between, the first call answered at once), the second call is
\* served from the cache, so that one network call is issued in total.
C11_AsyncSecondCallFromCache ==
    (SecondCallSameParametersAsync /\ prev.net = 1 /\ prev.value # PyNone)
        => /\ call.outcome = Returned(prev.value)
           /\ prev.net + call.net = 1

\* C12 as stated: in the asynchronous client an operation called after close()
\* or after the with-block was left runs its request on a fresh session: no
\* attempt uses a session that was closed, and none fails on a closed session.
C12_ClosedSessionNeverUsed ==
    (client.variant = "async" /\ call.pc \in {"wait", "done"})
        => /\ ~call.stale
           /\ call.outcome.raised # "RuntimeError"

\* C13 as stated: once the client's last method call is a close() or the exit
\* of a with-block, every session the client created has been released exactly
\* once, not zero times and not twice; and the exit of a with-block lets the
\* exception of its body propagate.
C13_SessionReleasedExactlyOnce ==
    /\ scope.last \in {"close", "exit"}
          => \A i \in 1..Len(sessions) : sessions[i].releases = 1
    /\ scope.last = "exit" => scope.propagated = scope.exc

\* what the i-th item of a finished helper run owes to the returned list: nothing
\* when its request failed, else the results of its search, or its page record
Contribution(f, i) ==
    LET out == f.tasks[i].outcome IN
    IF out.raised # "none" THEN <<>>
    ELSE IF f.helper = "search_many" THEN ResultsOf(out.value)
    ELSE <<out.value>>

RECURSIVE ContributionsFrom(_, _)
ContributionsFrom(f, i) ==
    IF i > Len(f.tasks) THEN <<>>
    ELSE Contribution(f, i) \o ContributionsFrom(f, i + 1)

\* C14: search_many and get_many_pages do not raise whichever of their items
\* fail (after retries), and return exactly the contributions of the items that
\* succeeded, in the order of the items: the concatenated results for
\* search_many, one page record per successful slug for get_many_pages.
C14_PartialFailureTolerant ==
    fan.pc = "done"
        => /\ fan.raised = "none"
           /\ fan.result = ContributionsFrom(fan, 1)
           /\ fan.helper = "get_many_pages"
                 => Len(fan.result) =
                      Cardinality({i \in 1..Len(fan.tasks) :
                                     fan.tasks[i].outcome.raised = "none"})

C14_Witness ==
    /\ fan.pc = "done"
    /\ fan.helper = "search_many"
    /\ Len(fan.items) = 2
    /\ fan.tasks[1].outcome = Returned(PyDict("none", 2))
    /\ fan.tasks[2].attempt_number = MaxAttempts
    /\ fan.tasks[2].outcome.raised = "GrokipediaError"
    /\ fan.raised = "none"
    /\ fan.result = ResultsOf(PyDict("none", 2))

AsciiSafeChars == AsciiAlnumChars \cup {"_", "-"}

\* C16 as stated: the storage identifier derived from any cache key, of any
\* operation and any parameters (non-ASCII letters and digits included), is the
\* key with each character outside [A-Za-z0-9_-] replaced by "_", and so has no
\* character outside that set.
C16_IdentifierAsciiSafe ==
    lastOp.name = "_get_cache_path" =>
        LET key == lastOp.key
            safe_key == SafeKey(lastOp.ret)
        IN  /\ Len(safe_key) = Len(key)
            /\ \A i \in 1..Len(key) :
                  /\ safe_key[i] \in AsciiSafeChars
                  /\ safe_key[i] = IF key[i] \in AsciiSafeChars THEN key[i] ELSE "_"

\* a step is the call of the store method named name
IsCallOf(name) == lastOp' # lastOp /\ lastOp'.name = name

\* C17 as stated: set(key, value) with a value that JSON cannot represent writes
\* nothing: the directory is after the call exactly what it was before (so that
\* an entry stored under key before is still there for a following get).
C17_UnserializableSetWritesNothing ==
    [][(IsCallOf("set")
        /\ written'[GetCachePath(lastOp'.key)].value.t \notin SerializableTypes)
          => files' = files]_vars

\* the record of a key in a directory: its file, if there is one
RecordOf(fs, key) ==
    IF Exists(fs, GetCachePath(key)) THEN <<fs[GetCachePath(key)]>> ELSE <<>>

\* after delete(key) and after clear() a get finds nothing under the keys
\* removed, and delete leaves alone the records of the keys in others(key)
DeleteAndClear(others(_)) ==
    /\ IsCallOf("delete") =>
          /\ CacheGetValue(files', lastOp'.key, now') = PyNone
          /\ \A k \in others(lastOp'.key) : RecordOf(files', k) = RecordOf(files, k)
    /\ IsCallOf("clear") =>
          \A k \in CacheKeys : CacheGetValue(files', k, now') = PyNone

OtherKeys(key) == CacheKeys \ {key}
OtherPaths(key) == {k \in CacheKeys : GetCachePath(k) # GetCachePath(key)}

\* C18 as stated: after delete(key), get(key) returns absent and the entries of
\* all other keys are unchanged; after clear(), get returns absent for every
\* key.
C18_DeleteKeepsOtherKeys == [][DeleteAndClear(OtherKeys)]_vars

\* C18 as amended: after delete(key), get(key) returns absent and the entries of
\* all keys whose storage identifier differs from that of key are unchanged (a
\* key with the same identifier shares the record and loses it too); after
\* clear(), get returns absent for every key.
C18_DeleteKeepsOtherRecords == [][DeleteAndClear(OtherPaths)]_vars

C18_Witness ==
    /\ lastOp.name = "delete" /\ lastOp.hadFile
    /\ lastOp.key = <<"a", "/", "b">>
    /\ ~Exists(files, GetCachePath(lastOp.key))
    /\ Exists(files, GetCachePath(<<"k", "1">>))
    /\ files[GetCachePath(<<"k", "1">>)].form = "entry"

\* C19: get_info(key) leaves the directory as it was, whether the file of key is
\* absent, valid, expired or corrupt.
C19_GetInfoNeverMutates == [][IsCallOf("get_info") => files' = files]_vars

C19_Witness ==
    /\ lastOp.name = "get_info"
    /\ lastOp.ret # PyNone
    /\ lastOp.ret.expired
    /\ lastOp.ret.age_seconds > CacheTtl
    /\ Exists(files, GetCachePath(lastOp.key))

\* the client was constructed with use_cache=False
WithoutCache == client.variant = "sync" /\ ~client.use_cache

\* C20: a client constructed with use_cache=False never reads or writes a cache
\* record: each attempt of each call issues a network call (none is served from
\* a record), and the cache directory stays as it was.
C20_NoCacheNoStoreAccess ==
    /\ [](WithoutCache /\ call.pc \in {"wait", "done"}
            => call.net = call.attempt_number /\ call.net >= 1)
    /\ [][WithoutCache => files' = files]_vars

C20_Witness ==
    /\ WithoutCache
    /\ call.pc = "done"
    /\ prev.status = "returned"
    /\ KeyOf(call) = LeftKey(client) /\ KeyOf(prev) = LeftKey(client)
    /\ call.outcome.raised = "none"
    /\ call.net = 1
    /\ Exists(files, GetCachePath(KeyOf(call)))
    /\ JsonLoad(files[GetCachePath(KeyOf(call))].value) = LeftValue(client)
    /\ call.outcome.value # LeftValue(client)
    /\ call.outcome.value = prev.value

\* ---------------------------------------------------------------------------
\* C21: the retry policy waits 1 time-unit before the second attempt and 2
\* before the third (exponential backoff starting at 1, doubling), and the
\* wait computed for any attempt number never exceeds 10.
BackoffStep == call.pc = "wait" /\ call'.pc = "attempt"

C21_BackoffWaits ==
    [][/\ \A n \in 1..MaxWaitAttempts : WaitExponential(n) <= 10
       /\ BackoffStep => /\ call.attempt_number = 1 => now' - now = 1
                         /\ call.attempt_number = 2 => now' - now = 2
                         /\ now' - now <= 10]_vars

\* a first call made at time 0 that has waited twice is about to make its
\* third attempt at time 1 + 2
C21_Witness ==
    /\ prev = NoPrev
    /\ call.pc = "attempt"
    /\ call.attempt_number = 2
    /\ now = 3

\* ---------------------------------------------------------------------------
\* C22: get(key) on a corrupt (unparsable) backing record returns absent and
\* deletes that record.
C22_CorruptRecordAbsentAndDeleted ==
    [][(/\ IsCallOf("get")
        /\ Exists(files, GetCachePath(lastOp'.key))
        /\ files[GetCachePath(lastOp'.key)].form \in UnparsableForms)
       => /\ lastOp'.raised = "none"
          /\ lastOp'.ret = PyNone
          /\ ~Exists(files', GetCachePath(lastOp'.key))]_vars

\* a get that found the text a failed set had just left, and removed it
C22_Witness ==
    LET path == GetCachePath(lastOp.key) IN
    /\ lastOp.name = "get"
    /\ lastOp.hadFile
    /\ path \in DOMAIN written
    /\ written[path].value.t \notin SerializableTypes
    /\ written[path].at = lastOp.at
    /\ lastOp.ret = PyNone
    /\ ~Exists(files, path)

\* ---------------------------------------------------------------------------
\* C26: get never raises: whatever the backing record holds (unparsable text,
\* valid JSON that is not an object, an object without timestamp or value, a
\* non-numeric timestamp), it returns absent and removes the record.
C26_GetNeverRaises ==
    [][(/\ IsCallOf("get")
        /\ Exists(files, GetCachePath(lastOp'.key))
        /\ files[GetCachePath(lastOp'.key)].form # "entry")
       => /\ lastOp'.raised = "none"
          /\ lastOp'.ret = PyNone
          /\ ~Exists(files', GetCachePath(lastOp'.key))]_vars

\* ---------------------------------------------------------------------------
\* C27: get and get_info agree on expiry: for a well-formed entry of any age,
\* get_info reports expired = true exactly when get, called at the same
\* instant, treats the entry as expired (returns absent and unlinks it).
C27_GetAndGetInfoAgreeOnExpiry ==
    LET path == GetCachePath(lastOp.key) IN
    (/\ lastOp.name = "get_info"
     /\ lastOp.raised = "none"
     /\ lastOp.ret # PyNone
     /\ lastOp.at = now
     /\ Exists(files, path)
     /\ files[path].form = "entry")
    => (lastOp.ret.expired <=> ~Exists(CacheGetFiles(files, lastOp.key, now), path))

\* ---------------------------------------------------------------------------
\* C23: sanitization can collide two distinct parameter tuples of the same
\* operation onto one storage identifier, and then, after the first has been
\* fetched and cached, a call with the second returns the first's cached
\* response without a network call.
SecondCallCollidingParameters ==
    /\ UsesCache(client)
    /\ call.pc = "done"
    /\ prev.status = "returned"
    /\ prev.op = call.op
    /\ KeyOf(prev) # KeyOf(call)
    /\ GetCachePath(KeyOf(prev)) = GetCachePath(KeyOf(call))
    /\ ~prev.touched
    /\ ~call.expired

C23_CollidingParametersShareResponse ==
    /\ \A op \in Ops("sync") :
          \E q1, q2 \in Queries, a2 \in Arg2(op), a3 \in Arg3(op) :
             /\ q1 # q2
             /\ GetCachePath(CacheKey(op, q1, a2, a3)) = GetCachePath(CacheKey(op, q2, a2, a3))
    /\ (SecondCallCollidingParameters /\ prev.value # PyNone)
          => /\ call.outcome = Returned(prev.value)
             /\ call.net = 0

\* the first call fetched a document over the network; the second, with another
\* query, got that document from the cache
C23_Witness ==
    /\ SecondCallCollidingParameters
    /\ prev.net = 1
    /\ prev.value.t = "dict"
    /\ prev.arg1 # call.arg1
    /\ call.outcome = Returned(prev.value)
    /\ call.net = 0

\* ---------------------------------------------------------------------------
\* C25: no client operation blocks indefinitely: with every HTTP call answering
\* or hitting its timeout, every invocation of search, get_page or
\* list_edit_requests_by_slug (sync or async) eventually returns or raises,
\* after at most 3 attempts.
C25_EveryCallEnds ==
    /\ [](call.pc \in {"attempt", "wait"} => <>(call.pc = "done"))
    /\ [](call.pc # "idle" => call.attempt_number <= 3 /\ call.net <= 3)

\* a call that ended by raising after its third attempt
C25_Witness ==
    /\ call.pc = "done"
    /\ call.attempt_number = 3
    /\ call.net = 3
    /\ call.outcome.raised \in GrokipediaErrors

\* ---------------------------------------------------------------------------
\* C28: an async client never leaks a session: in every state reached by
\* operations (with lazy session creation), __aenter__, scope exits and
\* close(), every session created is the one currently referenced or is
\* closed, so at most one session is open at a time.
C28_AsyncNoSessionLeak ==
    client.variant = "async"
       => /\ \A i \in DOMAIN sessions : i = session \/ sessions[i].closed
          /\ Cardinality({i \in DOMAIN sessions : ~sessions[i].closed}) <= 1

\* ---------------------------------------------------------------------------
\* C24: two concurrent set on the same key without a lock: last write wins;
\* once both have completed, the record holds exactly one of the two written
\* values in full, never a mixture of the two or a corrupt record.
AllDone == \A i \in DOMAIN threads : threads[i].pc = "done"
ThreadsOf(op) == {i \in DOMAIN threads : threads[i].op = op}

C24_ConcurrentSetsLeaveOneValue ==
    (AllDone /\ Cardinality(ThreadsOf("set")) >= 2 /\ ThreadsOf("get") = {})
       => /\ Exists(files, RacePath)
          /\ files[RacePath].form = "entry"
          /\ \E i \in ThreadsOf("set") :
                JsonLoad(files[RacePath].value) = threads[i].value

\* ---------------------------------------------------------------------------
\* C29: a concurrent reader cannot make a completed write disappear: when
\* get(key) runs concurrently with set(key, v), then once both have completed
\* (no later delete, clear or expiry) get(key) returns v.
C29_ReaderKeepsCompletedWrite ==
    (AllDone /\ Cardinality(ThreadsOf("set")) = 1 /\ ThreadsOf("get") # {})
       => \A i \in ThreadsOf("set") :
             /\ CacheGetRaises(files, RaceKey, now) = "none"
             /\ CacheGetValue(files, RaceKey, now) = threads[i].value

\* ---------------------------------------------------------------------------
\* C30: discover_slugs_from_search terminates for every query: it eventually
\* returns its set of discovered slugs, also when the service answers every
\* search for the query with a rate-limit error.
C30_DiscoverTerminates ==
    scraper.pc \in {"search", "sleep"} ~> scraper.pc = "returned"

=============================================================================
